---- MODULE Spec2Model ----
(***************************************************************************)
(* INVEST user-story analyzer: the guided variant (src/ReRefine.py) and    *)
(* the baseline variant (src/Refinement.py).                               *)
(*                                                                         *)
(* Two levels are modelled.  The text level is sanitize_json_string, on    *)
(* sequences of characters.  The call level is the life of one             *)
(* UserStoryInvestAnalyzer: construction, then calls of                    *)
(* analyze_user_story, each a pipeline of steps inside one try block; a    *)
(* call comes from a library caller or from __main__, which runs           *)
(* preprocess_input on the request envelope first.                         *)
(***************************************************************************)
EXTENDS Integers, Sequences, FiniteSets, TLC

VARIABLES
    variant,      \* "guided" (ReRefine.py) or "baseline" (Refinement.py)
    api_key,      \* os.getenv("GROQ_API_KEY")
    model,        \* os.getenv("GROQ_MODEL")
    chat_model,   \* self.chat_model: "None", "injected" or "ChatGroq"
    clients,      \* number of ChatGroq clients constructed so far
    pc,           \* position of the analyzer / of the running call
    args,         \* the arguments of the running call
    prompt,       \* the prompt built for the running call
    invokes,      \* outbound chat_model.invoke calls made by the running call
    response,     \* what the Model Invoker answered (response.content as received)
    content,      \* response.content.strip(), then json_content
    parsed,       \* json.loads(json_content)
    result,       \* the value returned by analyze_user_story
    escaped,      \* the exception that left the running operation, or "none"
    user_input,   \* __main__: the request envelope read from the caller
    preprocessed, \* __main__: what preprocess_input returned or raised
    json_str,     \* text level: the argument of sanitize_json_string
    sanitized,    \* text level: its return value
    tpc           \* text level: "in" before the call, "out" after it

vars == <<variant, api_key, model, chat_model, clients, pc, args, prompt, invokes,
          response, content, parsed, result, escaped, user_input, preprocessed,
          json_str, sanitized, tpc>>

callVars == <<variant, api_key, model, chat_model, clients, pc, args, prompt, invokes,
              response, content, parsed, result, escaped>>

mainVars == <<user_input, preprocessed>>

textVars == <<json_str, sanitized, tpc>>

(***************************************************************************)
(* Bounds of the model.                                                    *)
(***************************************************************************)
MaxLen == 4        \* longest text given to sanitize_json_string at the text level
MaxTitle == 2      \* longest raw Title literal in a model response
MaxSummary == 2    \* most tokens in a refinement_summary of a model response
MaxRaw == 7        \* largest integer a model response gives as a criterion score

(***************************************************************************)
(* Characters.  One representative stands for each class the code tells    *)
(* apart: the double quote, the backslash, the three whitespace controls   *)
(* the sanitizer names, a control character of 0x00-0x1F other than those  *)
(* (SOH, 0x01), a character of 0x7F-0x9F (DEL, 0x7F), and letters.         *)
(***************************************************************************)
Quote == "\""
Backslash == "\\"
NL == "\n"
TAB == "\t"
CR == "\r"
SOH == "<01>"
DEL == "<7F>"

Letters == {"a", "n"}

Alphabet == {Quote, Backslash, NL, TAB, CR, SOH, DEL} \cup Letters

RECURSIVE Texts(_)
Texts(n) ==
    IF n = 0 THEN {<<>>}
    ELSE LET shorter == Texts(n - 1)
         IN  shorter \cup {Append(s, c) : s \in {x \in shorter : Len(x) = n - 1}, c \in Alphabet}

(***************************************************************************)
(* sanitize_json_string                                                    *)
(***************************************************************************)

\* The class [\x00-\x09\x0B\x0C\x0E-\x1F\x7F-\x9F]: TAB is 0x09 and is in it,
\* newline (0x0A) and carriage return (0x0D) are not.
ControlClass == {TAB, SOH, DEL}

\* StripControl with the class [\x00-\x1F\x7F-\x9F]: newline and carriage
\* return go too.
StripControl_AllOfC0(s) == SelectSeq(s, LAMBDA c : c \notin ControlClass \cup {NL, CR})

\* re.sub(r'[\x00-\x09\x0B\x0C\x0E-\x1F\x7F-\x9F]', '', json_str)
StripControl(s) == SelectSeq(s, LAMBDA c : c \notin ControlClass)

\* clean_string_value escaping the backslash as well.
RECURSIVE clean_string_value_EscapesBackslash(_)
clean_string_value_EscapesBackslash(value) ==
    IF value = <<>> THEN <<>>
    ELSE LET c == Head(value)
             e == IF c = NL THEN <<Backslash, "n">>
                  ELSE IF c = TAB THEN <<Backslash, "t">>
                  ELSE IF c = CR THEN <<Backslash, "r">>
                  ELSE IF c = Backslash THEN <<Backslash, Backslash>>
                  ELSE <<c>>
         IN  e \o clean_string_value_EscapesBackslash(Tail(value))

\* value.replace('\n', '\\n').replace('\t', '\\t').replace('\r', '\\r')
RECURSIVE clean_string_value(_)
clean_string_value(value) ==
    IF value = <<>> THEN <<>>
    ELSE LET c == Head(value)
             e == IF c = NL THEN <<Backslash, "n">>
                  ELSE IF c = TAB THEN <<Backslash, "t">>
                  ELSE IF c = CR THEN <<Backslash, "r">>
                  ELSE <<c>>
         IN  e \o clean_string_value(Tail(value))

\* The pattern "((?:\\.|[^"\\])*)" tried with its opening quote at j - 1: the
\* position of the closing quote, or 0 when the pattern does not match there.
\* An item is a backslash and any character but a newline ('.' without DOTALL),
\* or one character that is neither a quote nor a backslash.
RECURSIVE MatchEnd(_, _)
MatchEnd(s, j) ==
    IF j > Len(s) THEN 0
    ELSE IF s[j] = Quote THEN j
    ELSE IF s[j] = Backslash
         THEN IF j + 1 <= Len(s) /\ s[j + 1] # NL THEN MatchEnd(s, j + 2) ELSE 0
    ELSE MatchEnd(s, j + 1)

\* re.sub(pattern, clean_string_value, json_str) from position i on: leftmost,
\* non-overlapping matches, every other character copied.
RECURSIVE SubStrings(_, _)
SubStrings(s, i) ==
    IF i > Len(s) THEN <<>>
    ELSE LET e == IF s[i] = Quote THEN MatchEnd(s, i + 1) ELSE 0
         IN  IF e > 0
             THEN <<Quote>> \o clean_string_value(SubSeq(s, i + 1, e - 1)) \o <<Quote>>
                  \o SubStrings(s, e + 1)
             ELSE <<s[i]>> \o SubStrings(s, i + 1)

sanitize_json_string(s) == SubStrings(StripControl(s), 1)

(***************************************************************************)
(* JSON values.  A number, string, null or list is [t, v]: t its Python    *)
(* type after json.loads and v an integer (the value of an int, 0/1 of a   *)
(* bool, the tenths of a finite float, the value written in a numeric      *)
(* string).  "missing" stands for a key the object does not have.          *)
(***************************************************************************)
Val(t, v) == [t |-> t, v |-> v]
Missing == Val("missing", 0)
Null == Val("null", 0)
JInt(n) == Val("int", n)
JBool(b) == Val("bool", b)
JFloat(tenths) == Val("float", tenths)
NaN == Val("nan", 0)
Inf == Val("inf", 0)
NonNumStr == Val("str", 0)
NumStr(n) == Val("numstr", n)

\* isinstance(x, (int, float)): bool is a subclass of int; NaN and Infinity,
\* which json.loads accepts, are floats.
IsNumber(x) == x.t \in {"int", "bool", "float", "nan", "inf"}

\* int(x): [exc, v], exc the exception raised or "none".
PyInt(x) ==
    CASE x.t \in {"int", "bool", "numstr"} -> [exc |-> "none", v |-> x.v]
      [] x.t = "float" ->
            [exc |-> "none", v |-> IF x.v >= 0 THEN x.v \div 10 ELSE -((-x.v) \div 10)]
      [] x.t = "nan" -> [exc |-> "ValueError", v |-> 0]
      [] x.t = "inf" -> [exc |-> "OverflowError", v |-> 0]
      [] x.t = "str" -> [exc |-> "ValueError", v |-> 0]
      [] OTHER -> [exc |-> "TypeError", v |-> 0]

Min(a, b) == IF a <= b THEN a ELSE b
Max(a, b) == IF a >= b THEN a ELSE b

(***************************************************************************)
(* Sections of a response and of a result.  A section is [k |-> "missing"] *)
(* (the key is absent), [k |-> "other"] (present, not an object) or an     *)
(* object with k = "dict".  Title is a sequence of characters; the other   *)
(* texts are opaque strings, Absent when the key is absent.                *)
(***************************************************************************)
Criteria == <<"Independent", "Negotiable", "Valuable", "Estimable", "Small", "Testable">>
Stories == {"OriginalUserStory", "ImprovedUserStory"}
CriteriaSet == {Criteria[i] : i \in 1..Len(Criteria)}
required_sections == Stories \cup CriteriaSet \cup {"overall"}

Absent == "<absent>"
MissingSection == [k |-> "missing"]
OtherSection == [k |-> "other"]

Story(title, d, ac, ai) ==
    [k |-> "dict", Title |-> title, Description |-> d, AcceptanceCriteria |-> ac,
     AdditionalInformation |-> ai]

Criterion(s, i, e, r) ==
    [k |-> "dict", score |-> s, improved_score |-> i, explanation |-> e, recommendation |-> r]

Overall(inp, sc, imp, summ, rs) ==
    [k |-> "dict", input_score |-> inp, score |-> sc, improved_score |-> imp,
     summary |-> summ, refinement_summary |-> rs]

(***************************************************************************)
(* refinement_summary: a string is a sequence of tokens, each a newline, a *)
(* sentence "INVEST Score improved from a/30 to b/30" (a match of          *)
(* score_pattern), or a run of other text holding no newline and no match. *)
(***************************************************************************)
Txt == [k |-> "txt", a |-> 0, b |-> 0]
Newline == [k |-> "nl", a |-> 0, b |-> 0]
Sentence(a, b) == [k |-> "sent", a |-> a, b |-> b]

Text(toks) == [t |-> "str", toks |-> toks]
NoText == [t |-> "missing", toks |-> <<>>]
NotText == [t |-> "other", toks |-> <<>>]

\* ReSubScore as re.sub(..., count=1) would do it: the first match alone.
ReSubScore_FirstOnly(toks, a, b) ==
    [i \in 1..Len(toks) |->
        IF toks[i].k = "sent" /\ \A j \in 1..(i - 1) : toks[j].k # "sent"
        THEN Sentence(a, b) ELSE toks[i]]

\* re.sub(score_pattern, f"INVEST Score improved from {a}/30 to {b}/30", summary)
ReSubScore(toks, a, b) ==
    [i \in 1..Len(toks) |-> IF toks[i].k = "sent" THEN Sentence(a, b) ELSE toks[i]]

(***************************************************************************)
(* The defaults injected for a missing section, and the Error Result.      *)
(***************************************************************************)
DefaultStory == Story(<<>>, "", <<>>, "")

DefaultCriterion(v) ==
    IF v = "guided" THEN Criterion(JInt(0), JInt(0), "", "")
    ELSE Criterion(JInt(0), Missing, "", "")

DefaultOverall(v, input_score) ==
    IF v = "guided" THEN Overall(input_score, Missing, JInt(0), "", Text(<<>>))
    ELSE Overall(Missing, JInt(0), JInt(0), "", Text(<<>>))

DefaultSection(v, section, input_score) ==
    IF section \in Stories THEN DefaultStory
    ELSE IF section = "overall" THEN DefaultOverall(v, input_score)
    ELSE DefaultCriterion(v)

\* ErrorResult with a literal 0 where the guided variant passes the caller's
\* input_score through.
ErrorResult_ZeroInputScore(v, e, input_score) ==
    [error |-> <<"Analysis failed: ", e>>,
     sec |-> [s \in required_sections |->
                IF s = "overall"
                THEN [DefaultOverall(v, JInt(0)) EXCEPT !.summary = "Error in analysis"]
                ELSE DefaultSection(v, s, input_score)]]

\* The dictionary of the except branch.
ErrorResult(v, e, input_score) ==
    [error |-> <<"Analysis failed: ", e>>,
     sec |-> [s \in required_sections |->
                IF s = "overall"
                THEN [DefaultOverall(v, input_score) EXCEPT !.summary = "Error in analysis"]
                ELSE DefaultSection(v, s, input_score)]]

\* except Exception: every exception a step of the call can raise derives from it.
Exceptions ==
    {"ValueError", "TypeError", "KeyError", "OverflowError", "AttributeError",
     "JSONDecodeError", "ClientError"}
\* Caught as "except (ValueError, json.JSONDecodeError)" would have it.
Caught_ValueErrorsOnly(e) == e \in {"ValueError", "JSONDecodeError"}

Caught(e) == e \in Exceptions

(***************************************************************************)
(* Normalization of a parsed response.  Every operator returns             *)
(* [exc, sec]: exc the exception that ended it ("none" when it completed)  *)
(* and sec the sections so far.                                            *)
(***************************************************************************)

\* for section in required_sections: if section not in result: result[section] = ...
FillDefaults(v, sec, input_score) ==
    [s \in required_sections |->
        IF sec[s].k = "missing" THEN DefaultSection(v, s, input_score) ELSE sec[s]]

\* Guided: one score or improved_score of a criterion.
ValidateScore(x) ==
    IF x.t = "missing" \/ ~IsNumber(x) THEN [exc |-> "none", v |-> 0]
    ELSE LET r == PyInt(x)
         IN  IF r.exc = "none" THEN [exc |-> "none", v |-> Max(1, Min(5, r.v))]
             ELSE IF r.exc \in {"ValueError", "TypeError"} THEN [exc |-> "none", v |-> 0]
             ELSE [exc |-> r.exc, v |-> 0]

\* Baseline: max(1, min(5, int(result[criterion]["score"])))
CoerceScore(x) ==
    IF x.t = "missing" THEN [exc |-> "KeyError", v |-> 0]
    ELSE LET r == PyInt(x)
         IN  IF r.exc = "none" THEN [exc |-> "none", v |-> Max(1, Min(5, r.v))]
             ELSE [exc |-> r.exc, v |-> 0]

\* The body of the loop over the criteria, for one criterion.
ValidateCriterion(v, c) ==
    IF c.k # "dict" THEN [exc |-> "TypeError", c |-> c]
    ELSE IF v = "guided"
    THEN LET s == ValidateScore(c.score)
             i == ValidateScore(c.improved_score)
         IN  IF s.exc # "none" THEN [exc |-> s.exc, c |-> c]
             ELSE IF i.exc # "none" THEN [exc |-> i.exc, c |-> c]
             ELSE [exc |-> "none", c |-> [c EXCEPT !.score = JInt(s.v), !.improved_score = JInt(i.v)]]
    ELSE LET s == CoerceScore(c.score)
         IN  IF s.exc # "none" THEN [exc |-> s.exc, c |-> c]
             ELSE [exc |-> "none", c |-> [c EXCEPT !.score = JInt(s.v)]]

\* The loop over the criteria from the i-th on.
RECURSIVE ValidateCriteria(_, _, _)
ValidateCriteria(v, sec, i) ==
    IF i > Len(Criteria) THEN [exc |-> "none", sec |-> sec]
    ELSE LET r == ValidateCriterion(v, sec[Criteria[i]])
         IN  IF r.exc # "none" THEN [exc |-> r.exc, sec |-> sec]
             ELSE ValidateCriteria(v, [sec EXCEPT ![Criteria[i]] = r.c], i + 1)

\* sum(result[c][field] for c in [...]) over normalized criteria
RECURSIVE SumFrom(_, _, _)
SumFrom(sec, field, i) ==
    IF i > Len(Criteria) THEN 0
    ELSE (IF field = "score" THEN sec[Criteria[i]].score.v
          ELSE sec[Criteria[i]].improved_score.v) + SumFrom(sec, field, i + 1)

\* SumOf with the loop starting one criterion late.
SumOf_SkipsFirst(sec, field) == SumFrom(sec, field, 2)

SumOf(sec, field) == SumFrom(sec, field, 1)

\* Guided: "Validate overall section" and the mismatch repair.
ValidateOverallGuided(sec, input_score) ==
    LET o == sec["overall"]
        calculated_improved_score == SumOf(sec, "improved_score")
    IN  IF o.k # "dict" THEN [exc |-> "TypeError", sec |-> sec]
        ELSE
        LET in0 == IF o.input_score.t = "missing" \/ ~IsNumber(o.input_score)
                   THEN input_score ELSE o.input_score
            inI == PyInt(in0)
            inC == Max(0, Min(30, inI.v))
            im0 == IF o.improved_score.t = "missing" \/ ~IsNumber(o.improved_score)
                   THEN JInt(calculated_improved_score) ELSE o.improved_score
            imI == PyInt(im0)
            imC == Max(0, Min(30, imI.v))
            o1 == [o EXCEPT !.input_score = JInt(inC), !.improved_score = JInt(imC)]
            current == IF o.refinement_summary.t = "missing" THEN <<>>
                       ELSE o.refinement_summary.toks
            updated == ReSubScore(current, inC, calculated_improved_score)
            o2 == [o1 EXCEPT !.improved_score = JInt(calculated_improved_score),
                             !.refinement_summary =
                                 Text(IF updated # <<>> THEN updated
                                      ELSE <<Sentence(inC, calculated_improved_score)>>)]
        IN  IF inI.exc # "none" THEN [exc |-> inI.exc, sec |-> sec]
            ELSE IF imI.exc # "none" THEN [exc |-> imI.exc, sec |-> sec]
            ELSE IF imC = calculated_improved_score
                 THEN [exc |-> "none", sec |-> [sec EXCEPT !["overall"] = o1]]
            ELSE IF o.refinement_summary.t = "other"
                 THEN [exc |-> "TypeError", sec |-> sec]
            ELSE [exc |-> "none", sec |-> [sec EXCEPT !["overall"] = o2]]

\* Baseline: overall.score and overall.improved_score.
ValidateOverallBaseline(sec) ==
    LET o == sec["overall"]
        im0 == IF o.improved_score.t = "missing" THEN JInt(0) ELSE o.improved_score
        imI == PyInt(im0)
    IN  IF o.k # "dict" THEN [exc |-> "TypeError", sec |-> sec]
        ELSE IF imI.exc # "none" THEN [exc |-> imI.exc, sec |-> sec]
        ELSE [exc |-> "none",
              sec |-> [sec EXCEPT !["overall"] =
                          [o EXCEPT !.score = JInt(SumOf(sec, "score")),
                                    !.improved_score = JInt(Min(30, imI.v))]]]

ValidateOverall(v, sec, input_score) ==
    IF v = "guided" THEN ValidateOverallGuided(sec, input_score)
    ELSE ValidateOverallBaseline(sec)

\* Everything analyze_user_story does to the parsed response p.
Normalize(v, p, input_score) ==
    IF p.shape # "object" THEN [exc |-> "TypeError", sec |-> <<>>]
    ELSE LET filled == FillDefaults(v, p.sec, input_score)
             crit == ValidateCriteria(v, filled, 1)
         IN  IF crit.exc # "none" THEN crit
             ELSE ValidateOverall(v, crit.sec, input_score)

(***************************************************************************)
(* json.loads of the sanitized text.  A response text is [shape, sec]:     *)
(* "truncated" (no JSON value), "scalar" (a JSON value that is no object)  *)
(* or "object" with its sections.  One string literal of the text is kept  *)
(* at the character level, the Title of OriginalUserStory, quotes          *)
(* included: it is what the sanitizer rewrites and what the parser must    *)
(* decode.  In the alphabet above a literal that does not decode leaves    *)
(* no JSON text around it either.                                          *)
(***************************************************************************)

\* The body of a JSON string literal, decoded as json.loads (strict) does.
RECURSIVE DecodeBody(_)
DecodeBody(b) ==
    IF b = <<>> THEN [ok |-> TRUE, v |-> <<>>]
    ELSE LET c == Head(b) IN
         IF c = Quote \/ c \in {NL, TAB, CR, SOH} THEN [ok |-> FALSE, v |-> <<>>]
         ELSE IF c = Backslash
         THEN IF Len(b) < 2 THEN [ok |-> FALSE, v |-> <<>>]
              ELSE LET x == b[2]
                       d == CASE x = Quote -> <<Quote>>
                              [] x = Backslash -> <<Backslash>>
                              [] x = "n" -> <<NL>>
                              [] x = "t" -> <<TAB>>
                              [] x = "r" -> <<CR>>
                              [] OTHER -> <<>>
                       rest == DecodeBody(SubSeq(b, 3, Len(b)))
                   IN  IF d = <<>> \/ ~rest.ok THEN [ok |-> FALSE, v |-> <<>>]
                       ELSE [ok |-> TRUE, v |-> d \o rest.v]
         ELSE LET rest == DecodeBody(Tail(b))
              IN  IF rest.ok THEN [ok |-> TRUE, v |-> <<c>> \o rest.v]
                  ELSE [ok |-> FALSE, v |-> <<>>]

DecodeString(lit) ==
    IF Len(lit) < 2 \/ lit[1] # Quote \/ lit[Len(lit)] # Quote
    THEN [ok |-> FALSE, v |-> <<>>]
    ELSE DecodeBody(SubSeq(lit, 2, Len(lit) - 1))

HasTitle(text) == text.shape = "object" /\ text.sec["OriginalUserStory"].k = "dict"

\* json.loads(text): [exc, value].
JsonLoads(text) ==
    IF text.shape = "truncated" THEN [exc |-> "JSONDecodeError", value |-> text]
    ELSE IF ~HasTitle(text) THEN [exc |-> "none", value |-> text]
    ELSE LET d == DecodeString(text.sec["OriginalUserStory"].Title)
         IN  IF d.ok
             THEN [exc |-> "none",
                   value |-> [text EXCEPT !.sec["OriginalUserStory"].Title = d.v]]
             ELSE [exc |-> "JSONDecodeError", value |-> text]

\* sanitize_json_string(content), on the literal the text keeps as characters.
SanitizeText(text) ==
    IF HasTitle(text)
    THEN [text EXCEPT !.sec["OriginalUserStory"].Title = sanitize_json_string(@)]
    ELSE text

(***************************************************************************)
(* What the Model Invoker may answer.                                      *)
(***************************************************************************)
RECURSIVE TokenSeqs(_, _)
TokenSeqs(toks, n) ==
    IF n = 0 THEN {<<>>}
    ELSE LET shorter == TokenSeqs(toks, n - 1)
         IN  shorter \cup {Append(s, t) : s \in {x \in shorter : Len(x) = n - 1}, t \in toks}

Literal(body) == <<Quote>> \o body \o <<Quote>>

BaseCriterion == Criterion(JInt(3), JInt(4), "e", "r")
BaseScoreSum == Len(Criteria) * 3
BaseImprovedSum == Len(Criteria) * 4
ConsistentOverall ==
    Overall(JInt(BaseScoreSum), JInt(BaseScoreSum), JInt(BaseImprovedSum), "s",
            Text(<<Txt, Newline, Sentence(BaseScoreSum, BaseImprovedSum)>>))

BaseSections(body) ==
    [s \in required_sections |->
        IF s = "OriginalUserStory" THEN Story(Literal(body), "D", <<"ac">>, "AI")
        ELSE IF s = "ImprovedUserStory" THEN Story(<<"a">>, "D2", <<"ac", "ac2">>, "AI")
        ELSE IF s = "overall" THEN ConsistentOverall
        ELSE BaseCriterion]

RawScores ==
    {Missing, Null, NonNumStr, NumStr(3), JBool(1), JFloat(27), JFloat(-5), NaN, Inf}
        \cup {JInt(n) : n \in (-1)..MaxRaw}

RawCriteria ==
    {MissingSection, OtherSection}
        \cup {Criterion(x, JInt(4), "e", "r") : x \in RawScores}
        \cup {Criterion(JInt(3), x, "e", "r") : x \in RawScores}

RawOverallsOfScores ==
    {MissingSection, OtherSection, ConsistentOverall,
     Overall(Missing, Missing, Missing, Absent, NoText),
     Overall(NaN, JInt(18), Inf, "s", Text(<<Txt>>))}

\* One criterion off the base response.
ScoreObjects ==
    {[BaseSections(<<"a">>) EXCEPT ![c] = d, !["overall"] = o] :
        c \in CriteriaSet, d \in RawCriteria, o \in RawOverallsOfScores}

SummaryTokens == {Txt, Newline, Sentence(BaseScoreSum, BaseImprovedSum), Sentence(7, 20)}

RawSummaries == {NoText, NotText} \cup {Text(t) : t \in TokenSeqs(SummaryTokens, MaxSummary)}

RawInputScores == {Missing, JInt(-3), JInt(BaseScoreSum), JInt(40)}
RawImprovedScores ==
    {Missing, NonNumStr, JInt(BaseImprovedSum), JInt(20), JInt(35), JInt(-2)}

\* The overall section off the base response.
SummaryObjects ==
    {[BaseSections(<<"a">>) EXCEPT !["overall"] = Overall(i, JInt(BaseScoreSum), m, "s", rs)] :
        i \in RawInputScores, m \in RawImprovedScores, rs \in RawSummaries}

\* The Title literal off the base response.
TitleObjects == {BaseSections(body) : body \in Texts(MaxTitle)}

EmptyObject == [s \in required_sections |-> MissingSection]

ResponseTexts ==
    {[shape |-> "truncated", sec |-> <<>>], [shape |-> "scalar", sec |-> <<>>]}
        \cup {[shape |-> "object", sec |-> x] :
                x \in ScoreObjects \cup SummaryObjects \cup TitleObjects \cup {EmptyObject}}

(***************************************************************************)
(* The environment and the callers.                                        *)
(***************************************************************************)
None == [t |-> "None"]
EnvValues == {"None", "", "set"}
Falsy(x) == x \in {"None", ""}

UserStories == {"str", "dict", "unserializable"}
CallerScores == {JInt(0), JInt(7), JInt(40), NonNumStr}

\* The arguments of analyze_user_story; the baseline variant takes the user
\* story alone, and its record carries the guided variant's defaults.
Arguments(v) ==
    IF v = "guided"
    THEN {[user_story |-> u, aspects_to_enhance |-> "", additional_context |-> "",
           input_score |-> i] : u \in UserStories, i \in CallerScores}
    ELSE {[user_story |-> u, aspects_to_enhance |-> "", additional_context |-> "",
           input_score |-> JInt(0)] : u \in UserStories}

(***************************************************************************)
(* The request envelope __main__ reads and preprocess_input parses.  shape *)
(* is "invalid" (no JSON), "fixable" (no JSON, but the baseline repair     *)
(* patterns match it), "other" (a JSON value that is no object) or         *)
(* "object".  UserStory is [k, has, types]: k the Python type of the       *)
(* value, has what `field in user_story` finds in it (keys of a dict,      *)
(* elements of a list, substrings of a str) and types the type of each     *)
(* field of a dict.  A hint is Missing, Str(s) or a value that is no str.  *)
(***************************************************************************)
required_fields == {"Title", "Description", "AcceptanceCriteria", "AdditionalInformation"}

FieldTypes == [required_fields -> {"str", "list", "int"}]

WellTyped ==
    [f \in required_fields |-> IF f = "AcceptanceCriteria" THEN "list" ELSE "str"]

UserStoryValue(k, has, types) == [k |-> k, has |-> has, types |-> types]
NoUserStory == UserStoryValue("missing", {}, WellTyped)
StoryObject(has, types) == UserStoryValue("dict", has, types)

Str(s) == [t |-> "str", s |-> s]
NotStr == [t |-> "int", s |-> ""]
NoHint == [t |-> "missing", s |-> ""]

EnvelopeOverall(k, score) == [k |-> k, score |-> score]
NoEnvelopeOverall == EnvelopeOverall("missing", Missing)

Envelope(shape, us, aspects, context, overall) ==
    [shape |-> shape, UserStory |-> us, aspects_to_enhance |-> aspects,
     additional_context |-> context, overall |-> overall]

BaseEnvelope ==
    Envelope("object", StoryObject(required_fields, WellTyped), NoHint, NoHint,
             NoEnvelopeOverall)

EnvelopeStories ==
    {NoUserStory, UserStoryValue("int", {}, WellTyped),
     UserStoryValue("str", required_fields, WellTyped),
     UserStoryValue("str", {"Title"}, WellTyped),
     UserStoryValue("list", required_fields, WellTyped),
     UserStoryValue("list", {}, WellTyped)}
        \cup {StoryObject(required_fields \ {f}, WellTyped) : f \in required_fields}
        \cup {StoryObject(required_fields, [WellTyped EXCEPT ![f] = "int"]) :
                f \in {"Title", "AcceptanceCriteria"}}

EnvelopeHints ==
    {<<NoHint, NoHint>>, <<Str(""), Str("")>>, <<Str("aspects"), Str("context")>>,
     <<NoHint, Str("context")>>, <<NotStr, NoHint>>, <<NoHint, NotStr>>}

EnvelopeOveralls ==
    {EnvelopeOverall("other", Missing)}
        \cup {EnvelopeOverall("dict", x) :
                x \in {Missing, JInt(7), JInt(40), NonNumStr, JFloat(-5), NaN, Inf}}

\* What a caller may type at the prompt of __main__.
UserInputs(v) ==
    IF v = "guided"
    THEN {[BaseEnvelope EXCEPT !.shape = sh] : sh \in {"invalid", "other"}}
            \cup {[BaseEnvelope EXCEPT !.UserStory = us] : us \in EnvelopeStories}
            \cup {[BaseEnvelope EXCEPT !.aspects_to_enhance = h[1],
                                       !.additional_context = h[2]] : h \in EnvelopeHints}
            \cup {[BaseEnvelope EXCEPT !.overall = o] : o \in EnvelopeOveralls}
    ELSE {[BaseEnvelope EXCEPT !.shape = sh] : sh \in {"invalid", "fixable", "other", "object"}}

\* What preprocess_input hands back: exc is "none" and the fields are the
\* returned tuple, or exc is the exception it raised.
Preprocessed(exc, us, aspects, context, input_score) ==
    [exc |-> exc, user_story |-> us, aspects_to_enhance |-> aspects,
     additional_context |-> context, input_score |-> input_score]

\* Both handlers of preprocess_input re-raise as ValueError.
InputError == Preprocessed("ValueError", "None", "", "", JInt(0))

\* aspects_to_enhance if aspects_to_enhance else "No specific aspects provided."
OrPlaceholder(h, placeholder) == IF h.t = "missing" \/ h.s = "" THEN placeholder ELSE h.s

\* preprocess_input of ReRefine.py
PreprocessGuided(e) ==
    LET us == e.UserStory
        score == IF e.overall.k = "missing" THEN JInt(0) ELSE e.overall.score
        input_score == IF score.t = "missing" \/ ~IsNumber(score) THEN JInt(0) ELSE score
        r == PyInt(input_score)
    IN  IF e.shape # "object" THEN InputError
        ELSE IF us.k = "missing" THEN InputError
        ELSE IF us.k \notin {"dict", "list", "str"} THEN InputError
        ELSE IF \E f \in required_fields : f \notin us.has THEN InputError
        ELSE IF e.aspects_to_enhance.t \notin {"missing", "str"} THEN InputError
        ELSE IF e.additional_context.t \notin {"missing", "str"} THEN InputError
        ELSE IF e.overall.k = "other" THEN InputError
        ELSE IF r.exc # "none" THEN InputError
        ELSE Preprocessed("none", us.k,
                          OrPlaceholder(e.aspects_to_enhance, "No specific aspects provided."),
                          OrPlaceholder(e.additional_context, "No additional context provided."),
                          JInt(Max(0, Min(30, r.v))))

\* preprocess_input of Refinement.py: the parsed text, or the story the
\* repair patterns rebuild; the baseline call takes the user story alone.
PreprocessBaseline(e) ==
    IF e.shape \in {"object", "other", "fixable"}
    THEN Preprocessed("none", "dict", "", "", JInt(0))
    ELSE InputError

Preprocess(v, e) == IF v = "guided" THEN PreprocessGuided(e) ELSE PreprocessBaseline(e)

(***************************************************************************)
(* Call level.                                                             *)
(***************************************************************************)
Init ==
    /\ variant \in {"guided", "baseline"}
    /\ api_key \in EnvValues
    /\ model \in EnvValues
    /\ chat_model = "None"
    /\ clients = 0
    /\ pc = "new"
    /\ args = None
    /\ prompt = None
    /\ invokes = 0
    /\ response = None
    /\ content = None
    /\ parsed = None
    /\ result = None
    /\ escaped = "none"
    /\ user_input = None
    /\ preprocessed = None
    /\ json_str = <<>>
    /\ sanitized = <<>>
    /\ tpc = "idle"

\* Construct raising only when both values are missing ("and" for "or").
Construct_WhenBothMissing ==
    /\ pc = "new"
    /\ \E cm \in {"None", "injected"} : chat_model' = cm
    /\ IF Falsy(api_key) /\ Falsy(model)
       THEN pc' = "ctor_raised" /\ escaped' = "ValueError"
       ELSE pc' = "ready" /\ escaped' = "none"
    /\ UNCHANGED <<variant, api_key, model, clients, args, prompt, invokes, response,
                   content, parsed, result>>
    /\ UNCHANGED mainVars
    /\ UNCHANGED textVars

\* UserStoryInvestAnalyzer.__init__(chat_model)
Construct ==
    /\ pc = "new"
    /\ \E cm \in {"None", "injected"} : chat_model' = cm
    /\ IF Falsy(api_key) \/ Falsy(model)
       THEN pc' = "ctor_raised" /\ escaped' = "ValueError"
       ELSE pc' = "ready" /\ escaped' = "none"
    /\ UNCHANGED <<variant, api_key, model, clients, args, prompt, invokes, response,
                   content, parsed, result>>
    /\ UNCHANGED mainVars
    /\ UNCHANGED textVars

\* An exception e raised inside the try block of analyze_user_story.
Raise(e) ==
    IF Caught(e)
    THEN /\ result' = ErrorResult(variant, e, args.input_score)
         /\ pc' = "returned"
         /\ escaped' = "none"
    ELSE /\ result' = result
         /\ pc' = "raised"
         /\ escaped' = e

\* A caller enters analyze_user_story.
Call ==
    /\ pc \in {"ready", "returned"}
    /\ \E a \in Arguments(variant) : args' = a
    /\ pc' = "initialize_chat_model"
    /\ invokes' = 0
    /\ prompt' = None
    /\ response' = None
    /\ content' = None
    /\ parsed' = None
    /\ result' = None
    /\ escaped' = "none"
    /\ user_input' = None
    /\ preprocessed' = None
    /\ UNCHANGED <<variant, api_key, model, chat_model, clients>>
    /\ UNCHANGED textVars

\* __main__: user_input = input(...); preprocess_input(user_input).  A
\* ValueError is caught by __main__ and printed to the caller.
preprocess_input ==
    /\ pc \in {"ready", "returned"}
    /\ \E e \in UserInputs(variant) :
          /\ user_input' = e
          /\ preprocessed' = Preprocess(variant, e)
          /\ pc' = IF Preprocess(variant, e).exc = "none" THEN "preprocessed" ELSE "rejected"
    /\ args' = None
    /\ invokes' = 0
    /\ prompt' = None
    /\ response' = None
    /\ content' = None
    /\ parsed' = None
    /\ result' = None
    /\ escaped' = "none"
    /\ UNCHANGED <<variant, api_key, model, chat_model, clients>>
    /\ UNCHANGED textVars

\* __main__: result = analyzer.analyze_user_story(...) on what
\* preprocess_input returned.
MainCall ==
    /\ pc = "preprocessed"
    /\ args' = [user_story |-> preprocessed.user_story,
                aspects_to_enhance |-> preprocessed.aspects_to_enhance,
                additional_context |-> preprocessed.additional_context,
                input_score |-> preprocessed.input_score]
    /\ pc' = "initialize_chat_model"
    /\ UNCHANGED <<variant, api_key, model, chat_model, clients, prompt, invokes, response,
                   content, parsed, result, escaped>>
    /\ UNCHANGED mainVars
    /\ UNCHANGED textVars

\* chat_model = self.initialize_chat_model(); the ChatGroq constructor may raise.
initialize_chat_model ==
    /\ pc = "initialize_chat_model"
    /\ IF chat_model = "None"
       THEN \/ /\ chat_model' = "ChatGroq"
               /\ clients' = clients + 1
               /\ pc' = "create_analysis_prompt"
               /\ UNCHANGED <<result, escaped>>
            \/ /\ Raise("ClientError")
               /\ UNCHANGED <<chat_model, clients>>
       ELSE /\ pc' = "create_analysis_prompt"
            /\ UNCHANGED <<chat_model, clients, result, escaped>>
    /\ UNCHANGED <<variant, api_key, model, args, prompt, invokes, response, content, parsed>>
    /\ UNCHANGED mainVars
    /\ UNCHANGED textVars

\* The fields create_analysis_prompt substitutes into the HumanMessage.
PromptOf(v, a) ==
    IF v = "guided"
    THEN [user_story |-> "story text", aspects_to_enhance |-> a.aspects_to_enhance,
          additional_context |-> a.additional_context, input_score |-> a.input_score]
    ELSE [user_story |-> "story text"]

\* analysis_prompt = self.create_analysis_prompt(...); json.dumps(user_story)
\* raises TypeError on an object that is not serializable.
create_analysis_prompt ==
    /\ pc = "create_analysis_prompt"
    /\ IF args.user_story = "unserializable"
       THEN Raise("TypeError") /\ UNCHANGED prompt
       ELSE /\ prompt' = PromptOf(variant, args)
            /\ pc' = "invoke"
            /\ UNCHANGED <<result, escaped>>
    /\ UNCHANGED <<variant, api_key, model, chat_model, clients, args, invokes, response,
                   content, parsed>>
    /\ UNCHANGED mainVars
    /\ UNCHANGED textVars

\* response = chat_model.invoke(analysis_prompt); content = response.content.strip()
Invoke ==
    /\ pc = "invoke"
    /\ invokes' = invokes + 1
    /\ \/ /\ Raise("ClientError")
          /\ UNCHANGED <<response, content>>
       \/ /\ response' = [content |-> [shape |-> "not a str", sec |-> <<>>]]
          /\ Raise("AttributeError")
          /\ UNCHANGED content
       \/ \E text \in ResponseTexts :
            /\ response' = [content |-> text]
            /\ content' = text
            /\ pc' = "sanitize_json_string"
            /\ UNCHANGED <<result, escaped>>
    /\ UNCHANGED <<variant, api_key, model, chat_model, clients, args, prompt, parsed>>
    /\ UNCHANGED mainVars
    /\ UNCHANGED textVars

\* json_content = sanitize_json_string(content)
SanitizeContent ==
    /\ pc = "sanitize_json_string"
    /\ content' = SanitizeText(content)
    /\ pc' = "json.loads"
    /\ UNCHANGED <<variant, api_key, model, chat_model, clients, args, prompt, invokes,
                   response, parsed, result, escaped>>
    /\ UNCHANGED mainVars
    /\ UNCHANGED textVars

\* Parse asking the model again when the text does not parse.
Parse_Retries ==
    /\ pc = "json.loads"
    /\ LET r == JsonLoads(content)
       IN  IF r.exc # "none"
           THEN pc' = "invoke" /\ UNCHANGED <<parsed, result, escaped>>
           ELSE /\ parsed' = r.value
                /\ pc' = "normalize"
                /\ UNCHANGED <<result, escaped>>
    /\ UNCHANGED <<variant, api_key, model, chat_model, clients, args, prompt, invokes,
                   response, content>>
    /\ UNCHANGED mainVars
    /\ UNCHANGED textVars

\* result = json.loads(json_content)
Parse ==
    /\ pc = "json.loads"
    /\ LET r == JsonLoads(content)
       IN  IF r.exc # "none"
           THEN Raise(r.exc) /\ UNCHANGED parsed
           ELSE /\ parsed' = r.value
                /\ pc' = "normalize"
                /\ UNCHANGED <<result, escaped>>
    /\ UNCHANGED <<variant, api_key, model, chat_model, clients, args, prompt, invokes,
                   response, content>>
    /\ UNCHANGED mainVars
    /\ UNCHANGED textVars

\* "Validate required fields" to "return result"
NormalizeAndReturn ==
    /\ pc = "normalize"
    /\ LET r == Normalize(variant, parsed, args.input_score)
       IN  IF r.exc # "none"
           THEN Raise(r.exc)
           ELSE /\ result' = [sec |-> r.sec]
                /\ pc' = "returned"
                /\ escaped' = "none"
    /\ UNCHANGED <<variant, api_key, model, chat_model, clients, args, prompt, invokes,
                   response, content, parsed>>
    /\ UNCHANGED mainVars
    /\ UNCHANGED textVars

Next ==
    \/ Construct
    \/ Call
    \/ preprocess_input
    \/ MainCall
    \/ initialize_chat_model
    \/ create_analysis_prompt
    \/ Invoke
    \/ SanitizeContent
    \/ Parse
    \/ NormalizeAndReturn

Spec == Init /\ [][Next]_vars

(***************************************************************************)
(* Text level: one call of sanitize_json_string on an arbitrary text.      *)
(***************************************************************************)
InitText ==
    /\ json_str \in Texts(MaxLen)
    /\ sanitized = <<>>
    /\ tpc = "in"
    /\ variant = "guided"
    /\ api_key = "set"
    /\ model = "set"
    /\ chat_model = "None"
    /\ clients = 0
    /\ pc = "idle"
    /\ args = None
    /\ prompt = None
    /\ invokes = 0
    /\ response = None
    /\ content = None
    /\ parsed = None
    /\ result = None
    /\ escaped = "none"
    /\ user_input = None
    /\ preprocessed = None

Sanitize ==
    /\ tpc = "in"
    /\ sanitized' = sanitize_json_string(json_str)
    /\ tpc' = "out"
    /\ UNCHANGED <<json_str>>
    /\ UNCHANGED callVars
    /\ UNCHANGED mainVars

NextText == Sanitize

SpecText == InitText /\ [][NextText]_vars

(***************************************************************************)
(* Properties.                                                             *)
(***************************************************************************)
IsErrorResult(r) == "error" \in DOMAIN r
Succeeded == pc = "returned" /\ ~IsErrorResult(result)

TotalScore(sec) ==
    sec["Independent"].score.v + sec["Negotiable"].score.v + sec["Valuable"].score.v
        + sec["Estimable"].score.v + sec["Small"].score.v + sec["Testable"].score.v

TotalImproved(sec) ==
    sec["Independent"].improved_score.v + sec["Negotiable"].improved_score.v
        + sec["Valuable"].improved_score.v + sec["Estimable"].improved_score.v
        + sec["Small"].improved_score.v + sec["Testable"].improved_score.v

IsScore(x) == x.t = "int" /\ x.v \in 0..5

\* The last line of a summary: what follows its last newline.
LastLine(toks) ==
    LET nls == {i \in 1..Len(toks) : toks[i].k = "nl"}
    IN  IF nls = {} THEN toks
        ELSE SubSeq(toks, (CHOOSE i \in nls : \A j \in nls : j <= i) + 1, Len(toks))

\* C1: in every result analyze_user_story returns, successful or Error Result,
\* every criterion score (and improved_score in the guided variant) is an
\* integer that is 0 or in 1..5, the guided overall.improved_score is the sum of
\* the six improved_score values and the baseline overall.score is the sum of
\* the six score values.
C1_TotalsAreSums ==
    pc = "returned" =>
        /\ \A c \in CriteriaSet : IsScore(result.sec[c].score)
        /\ variant = "guided" =>
              /\ \A c \in CriteriaSet : IsScore(result.sec[c].improved_score)
              /\ result.sec["overall"].improved_score = JInt(TotalImproved(result.sec))
        /\ variant = "baseline" =>
              result.sec["overall"].score = JInt(TotalScore(result.sec))

\* C1 witness: a successful guided result whose total was overwritten, the
\* model having said 20 where the criteria sum to 24.
C1_Witness ==
    /\ Succeeded
    /\ variant = "guided"
    /\ parsed.sec["overall"].k = "dict"
    /\ parsed.sec["overall"].improved_score = JInt(20)
    /\ result.sec["overall"].improved_score = JInt(24)
    /\ TotalImproved(result.sec) = 24

\* C2 (as claimed): in the guided variant, whenever the model's
\* overall.improved_score differs from the recomputed sum, the returned
\* refinement_summary ends with a line that is exactly the sentence
\* "INVEST Score improved from <input_score>/30 to <sum>/30".
C2_SummaryEndsWithCorrectedSentence ==
    (/\ Succeeded
     /\ variant = "guided"
     /\ parsed.sec["overall"].k = "dict"
     /\ parsed.sec["overall"].improved_score.t = "int"
     /\ parsed.sec["overall"].improved_score.v # TotalImproved(result.sec))
    => /\ result.sec["overall"].refinement_summary.t = "str"
       /\ LastLine(result.sec["overall"].refinement_summary.toks)
            = <<Sentence(result.sec["overall"].input_score.v, TotalImproved(result.sec))>>

\* Whether a summary's sentences all carry the returned totals.
SentencesAgree(o) ==
    \A i \in 1..Len(o.refinement_summary.toks) :
        o.refinement_summary.toks[i].k = "sent" =>
            /\ o.refinement_summary.toks[i].a = o.input_score.v
            /\ o.refinement_summary.toks[i].b = o.improved_score.v

\* C3 (as claimed): in every successful guided result every sentence
\* "INVEST Score improved from A/30 to B/30" of the refinement_summary has A the
\* returned input_score and B the returned improved_score.
C3_SentencesAlwaysAgree ==
    (Succeeded /\ variant = "guided") => SentencesAgree(result.sec["overall"])

\* The total the model stated, as the code compares it with the recomputed
\* sum: converted to an integer and clamped into 0..30, or the sum itself when
\* the model gave none.
StatedTotal(p, sum) ==
    LET o == IF p.sec["overall"].k = "missing" THEN DefaultOverall("guided", JInt(0))
             ELSE p.sec["overall"]
    IN  IF IsNumber(o.improved_score) THEN Max(0, Min(30, PyInt(o.improved_score).v))
        ELSE sum

\* C3 (amended): in every successful guided result in which the model's stated
\* total differed from the recomputed sum, every such sentence of the
\* refinement_summary carries the returned input_score and improved_score.
C3_RepairedSentencesAgree ==
    (/\ Succeeded
     /\ variant = "guided"
     /\ StatedTotal(parsed, TotalImproved(result.sec)) # TotalImproved(result.sec))
    => SentencesAgree(result.sec["overall"])

\* C3 witness: a stale sentence "from 7/30 to 20/30" was rewritten.
C3_Witness ==
    /\ Succeeded
    /\ variant = "guided"
    /\ parsed.sec["overall"].k = "dict"
    /\ parsed.sec["overall"].improved_score = JInt(20)
    /\ parsed.sec["overall"].refinement_summary = Text(<<Sentence(7, 20), Sentence(7, 20)>>)
    /\ result.sec["overall"].refinement_summary
         = Text(<<Sentence(result.sec["overall"].input_score.v, 24),
                  Sentence(result.sec["overall"].input_score.v, 24)>>)

\* The exception a returned Error Result reports.
FailedWith(e) == pc = "returned" /\ IsErrorResult(result) /\ result.error[2] = e

ZeroCriterion(v, c) ==
    /\ c.k = "dict"
    /\ c.score = JInt(0)
    /\ (v = "guided" => c.improved_score = JInt(0))
    /\ c.explanation = ""
    /\ c.recommendation = ""

EmptyStory(x) ==
    /\ x.k = "dict"
    /\ x.Title = <<>>
    /\ x.Description = ""
    /\ x.AcceptanceCriteria = <<>>
    /\ x.AdditionalInformation = ""

\* What C4 says of every section but overall.
ErrorSectionsAreDefaults ==
    /\ Len(result.error) > 0
    /\ DOMAIN result.sec = required_sections
    /\ \A x \in Stories : EmptyStory(result.sec[x])
    /\ \A c \in CriteriaSet : ZeroCriterion(variant, result.sec[c])
    /\ result.sec["overall"].k = "dict"
    /\ result.sec["overall"].improved_score = JInt(0)
    /\ result.sec["overall"].refinement_summary = Text(<<>>)

\* C4 (as claimed): when the sanitized text does not parse, the call returns an
\* Error Result with a non-empty error field and all nine sections, every one
\* holding only zero/empty values: all texts empty, all scores 0.
C4_ErrorResultAllZero ==
    FailedWith("JSONDecodeError") =>
        /\ ErrorSectionsAreDefaults
        /\ result.sec["overall"].summary = ""
        /\ variant = "guided" => result.sec["overall"].input_score = JInt(0)
        /\ variant = "baseline" => result.sec["overall"].score = JInt(0)

\* C4 (amended): as claimed, but overall.summary is "Error in analysis" and, in
\* the guided variant, overall.input_score is the input_score the caller passed.
C4_ErrorResultShape ==
    FailedWith("JSONDecodeError") =>
        /\ ErrorSectionsAreDefaults
        /\ result.sec["overall"].summary = "Error in analysis"
        /\ variant = "guided" => result.sec["overall"].input_score = args.input_score
        /\ variant = "baseline" => result.sec["overall"].score = JInt(0)

\* C4 witness: truncated JSON, answered to a caller who passed input_score 7.
C4_Witness ==
    /\ FailedWith("JSONDecodeError")
    /\ variant = "guided"
    /\ response.content.shape = "truncated"
    /\ args.input_score = JInt(7)
    /\ escaped = "none"

InCall ==
    pc \in {"initialize_chat_model", "create_analysis_prompt", "invoke",
            "sanitize_json_string", "json.loads", "normalize"}

IsNone(x) == DOMAIN x = {"t"}

\* A parsed response of a shape normalization cannot handle: no object, a
\* section that is no object, a score int() cannot convert (Infinity).
UnexpectedShape(p) ==
    \/ p.shape # "object"
    \/ \E s \in CriteriaSet \cup {"overall"} : p.sec[s].k = "other"
    \/ \E c \in CriteriaSet :
          /\ p.sec[c].k = "dict"
          /\ \/ p.sec[c].score = Inf
             \/ variant = "guided" /\ p.sec[c].improved_score = Inf

\* C5: analyze_user_story never raises past its boundary: no exception leaves a
\* call, and a call in which a step failed (client initialization, prompt
\* construction, the invocation, parsing, normalization of a response of
\* unexpected shape) returns a result that carries an error field.
C5_NeverRaises ==
    /\ pc # "raised"
    /\ (InCall \/ pc = "returned") => escaped = "none"
    /\ pc = "returned" =>
          /\ (IsNone(prompt) \/ IsNone(response) \/ IsNone(content) \/ IsNone(parsed))
                => IsErrorResult(result)
          /\ (~IsNone(parsed) /\ UnexpectedShape(parsed)) => IsErrorResult(result)

\* C5 witness: a criterion section that is not an object made normalization
\* fail with a TypeError, and the call returned an Error Result.
C5_Witness ==
    /\ FailedWith("TypeError")
    /\ ~IsNone(parsed)
    /\ parsed.shape = "object"
    /\ parsed.sec["Small"].k = "other"

\* C6 (as claimed): when the parsed response lacks a criterion section, the
\* call returns a non-error result whose section for that criterion is the
\* default: score 0 (and improved_score 0 in the guided variant), explanation
\* "" and recommendation "".
C6_MissingCriterionIsZero ==
    \A c \in CriteriaSet :
        (/\ pc = "returned"
         /\ ~IsNone(parsed)
         /\ parsed.shape = "object"
         /\ parsed.sec[c].k = "missing")
        => /\ ~IsErrorResult(result)
           /\ ZeroCriterion(variant, result.sec[c])

\* A response that is well-formed JSON, schema-conformant and consistent: all
\* nine sections, integer criterion scores in 1..5, overall totals in 0..30
\* equal to the sums of the criteria, and a summary whose last line is the
\* score sentence with those totals.
Conformant(v, text) ==
    /\ JsonLoads(text).exc = "none"
    /\ text.shape = "object"
    /\ \A s \in required_sections : text.sec[s].k = "dict"
    /\ \A c \in CriteriaSet :
          /\ text.sec[c].score.t = "int" /\ text.sec[c].score.v \in 1..5
          /\ text.sec[c].improved_score.t = "int" /\ text.sec[c].improved_score.v \in 1..5
    /\ LET o == text.sec["overall"] IN
          /\ o.improved_score.t = "int" /\ o.improved_score.v \in 0..30
          /\ v = "guided" =>
                /\ o.input_score = JInt(TotalScore(text.sec))
                /\ o.improved_score = JInt(TotalImproved(text.sec))
          /\ v = "baseline" => o.score = JInt(TotalScore(text.sec))
          /\ o.refinement_summary.t = "str"
          /\ LastLine(o.refinement_summary.toks)
               = <<Sentence(TotalScore(text.sec), o.improved_score.v)>>
          /\ \A i \in 1..Len(o.refinement_summary.toks) :
                o.refinement_summary.toks[i].k = "sent" =>
                    o.refinement_summary.toks[i]
                        = Sentence(TotalScore(text.sec), o.improved_score.v)

\* C7 (as claimed): for every conformant response, sanitization followed by
\* normalization returns a result equal, field by field, to the response as
\* json.loads reads it.
C7_RoundTrip ==
    (pc = "returned" /\ ~IsNone(response) /\ Conformant(variant, response.content))
    => /\ ~IsErrorResult(result)
       /\ result.sec = JsonLoads(response.content).value.sec

\* The characters of a text's Title literal.
TitleChars(text) ==
    {text.sec["OriginalUserStory"].Title[i] :
        i \in 1..Len(text.sec["OriginalUserStory"].Title)}

\* C7 (amended): the same for every conformant response that holds no
\* character of the ranges the sanitizer removes (0x7F-0x9F are legal inside a
\* JSON string, and are dropped from it).
C7_RoundTripWithoutControl ==
    (/\ pc = "returned"
     /\ ~IsNone(response)
     /\ Conformant(variant, response.content)
     /\ TitleChars(response.content) \cap {TAB, SOH, DEL} = {})
    => /\ ~IsErrorResult(result)
       /\ result.sec = JsonLoads(response.content).value.sec

\* C7 witness: a conformant response whose Title holds an escaped newline came
\* back with the newline as its Title.
C7_Witness ==
    /\ Succeeded
    /\ Conformant(variant, response.content)
    /\ response.content.sec["OriginalUserStory"].Title = <<Quote, Backslash, "n", Quote>>
    /\ result.sec["OriginalUserStory"].Title = <<NL>>
    /\ result.sec["overall"] = response.content.sec["overall"]

\* C9: constructing an analyzer while the API credential or the model
\* identifier is missing raises at construction, chat_model injected or not: no
\* analyzer exists, no chat client was created, no call to the model was made.
C9_MissingConfigurationRaises ==
    (api_key \in {"None", ""} \/ model \in {"None", ""}) =>
        /\ pc \in {"new", "ctor_raised"}
        /\ pc = "ctor_raised" => escaped = "ValueError"
        /\ clients = 0
        /\ invokes = 0
        /\ IsNone(response)

\* C9 witness: the model identifier alone is missing and a chat_model was
\* injected; the constructor raised.
C9_Witness ==
    /\ pc = "ctor_raised"
    /\ escaped = "ValueError"
    /\ api_key = "set"
    /\ model = "None"
    /\ chat_model = "injected"

\* C10 (as claimed): every call of analyze_user_story makes exactly one
\* outbound call to the Model Invoker, on every path.
C10_ExactlyOneInvocation == pc = "returned" => invokes = 1

\* C10 (amended): a call never makes more than one outbound call, and makes
\* exactly one unless it failed before the invocation (the chat client could
\* not be initialized, the prompt could not be built), when it makes none.
C10_AtMostOneInvocation ==
    /\ invokes <= 1
    /\ pc = "returned" => (invokes = 1 <=> ~IsNone(prompt))
    /\ pc = "returned" /\ IsNone(prompt) =>
          (FailedWith("ClientError") \/ FailedWith("TypeError"))

\* C10 witness: the text did not parse; the call returned the Error Result
\* after its one invocation.
C10_Witness == FailedWith("JSONDecodeError") /\ invokes = 1 /\ ~IsNone(prompt)

(***************************************************************************)
(* Properties of the flow through __main__.                                *)
(***************************************************************************)

\* An envelope that lacks a required field or carries a field of the wrong
\* type: no UserStory object, a UserStory without one of its four fields, a
\* field of UserStory that is not of its type (AcceptanceCriteria a list, the
\* others strings), a hint that is not a string.
MalformedEnvelope(e) ==
    \/ e.shape # "object"
    \/ e.UserStory.k # "dict"
    \/ \E f \in required_fields : f \notin e.UserStory.has
    \/ e.UserStory.types # WellTyped
    \/ e.aspects_to_enhance.t \notin {"missing", "str"}
    \/ e.additional_context.t \notin {"missing", "str"}

\* C11 (as claimed): in the guided flow, for every request envelope that lacks
\* a required field or carries a field of the wrong type, preprocess_input
\* raises its validation error to the caller and the model is never invoked
\* for that request.
C11_MalformedEnvelopeIsRejected ==
    (variant = "guided" /\ ~IsNone(user_input) /\ MalformedEnvelope(user_input))
    => /\ pc = "rejected"
       /\ preprocessed.exc = "ValueError"
       /\ invokes = 0

(***************************************************************************)
(* Properties of the scores of a result.                                   *)
(***************************************************************************)

\* A score of a response that cannot be determined: the field is absent, its
\* value is not a number, or int() fails on it.
Undetermined(x) == x.t \in {"missing", "null", "str", "nan", "inf"}

\* The parsed response is well-formed everywhere but in criterion c.
OnlyCriterionOff(c) ==
    /\ ~IsNone(parsed)
    /\ parsed.shape = "object"
    /\ parsed.sec[c].k = "dict"
    /\ \A d \in CriteriaSet \ {c} : parsed.sec[d] = BaseCriterion
    /\ parsed.sec["overall"] = ConsistentOverall

\* C12 (as claimed): in both variants, a criterion score that is absent, not
\* numeric or fails coercion is 0 in the successfully returned result (the same
\* for improved_score in the guided variant).
C12_UndeterminedScoreIsZero ==
    \A c \in CriteriaSet :
        (pc = "returned" /\ OnlyCriterionOff(c)) =>
            /\ Undetermined(parsed.sec[c].score) =>
                  (Succeeded /\ result.sec[c].score = JInt(0))
            /\ (variant = "guided" /\ Undetermined(parsed.sec[c].improved_score)) =>
                  (Succeeded /\ result.sec[c].improved_score = JInt(0))

\* An overall total as the data model has it: an integer in 0..30.
IsTotal(x) == x.t = "int" /\ x.v \in 0..30

\* C14 (as claimed): in every result analyze_user_story returns, successful or
\* Error Result, the overall totals are integers in 0..30: input_score and
\* improved_score in the guided variant, score and improved_score in the
\* baseline variant, whatever the model answered and the caller passed.
C14_TotalsInRange ==
    pc = "returned" =>
        /\ IsTotal(result.sec["overall"].improved_score)
        /\ variant = "guided" => IsTotal(result.sec["overall"].input_score)
        /\ variant = "baseline" => IsTotal(result.sec["overall"].score)

\* The hint the caller gave: the field of the envelope ("" when the envelope
\* does not have it) in the flow through __main__, the argument of
\* analyze_user_story otherwise.
CallerHint(field) ==
    IF IsNone(user_input)
    THEN (IF field = "aspects_to_enhance" THEN args.aspects_to_enhance
          ELSE args.additional_context)
    ELSE (IF field = "aspects_to_enhance" THEN user_input.aspects_to_enhance.s
          ELSE user_input.additional_context.s)

\* C15 (as claimed): the prompt the guided variant builds never carries an
\* empty hint field: when the caller's aspects_to_enhance is empty the prompt
\* holds "No specific aspects provided." in its place, and when
\* additional_context is empty it holds "No additional context provided.",
\* whichever way create_analysis_prompt was reached.
C15_NoEmptyHintField ==
    (variant = "guided" /\ ~IsNone(prompt)) =>
        /\ prompt.aspects_to_enhance # ""
        /\ prompt.additional_context # ""
        /\ CallerHint("aspects_to_enhance") = ""
              => prompt.aspects_to_enhance = "No specific aspects provided."
        /\ CallerHint("additional_context") = ""
              => prompt.additional_context = "No additional context provided."

(***************************************************************************)
(* Properties of sanitize_json_string, at the text level.                  *)
(***************************************************************************)

\* The characters of s, from position i on, that lie outside every string
\* literal the pattern matches (the delimiting quotes belong to the literal).
RECURSIVE Outside(_, _)
Outside(s, i) ==
    IF i > Len(s) THEN <<>>
    ELSE LET e == IF s[i] = Quote THEN MatchEnd(s, i + 1) ELSE 0
         IN  IF e > 0 THEN Outside(s, e + 1) ELSE <<s[i]>> \o Outside(s, i + 1)

\* The bodies of the string literals of s, from position i on.
RECURSIVE Bodies(_, _)
Bodies(s, i) ==
    IF i > Len(s) THEN <<>>
    ELSE LET e == IF s[i] = Quote THEN MatchEnd(s, i + 1) ELSE 0
         IN  IF e > 0 THEN <<SubSeq(s, i + 1, e - 1)>> \o Bodies(s, e + 1)
             ELSE Bodies(s, i + 1)

HasNewline(b) == \E i \in 1..Len(b) : b[i] = NL

\* b with every newline written as backslash, n.
RECURSIVE EscapedNewlines(_)
EscapedNewlines(b) ==
    IF b = <<>> THEN <<>>
    ELSE (IF Head(b) = NL THEN <<Backslash, "n">> ELSE <<Head(b)>>)
             \o EscapedNewlines(Tail(b))

\* b with every carriage return written as backslash, r.
RECURSIVE EscapedReturns(_)
EscapedReturns(b) ==
    IF b = <<>> THEN <<>>
    ELSE (IF Head(b) = CR THEN <<Backslash, "r">> ELSE <<Head(b)>>)
             \o EscapedReturns(Tail(b))

\* Every literal of the text `from` is, in the text `to`, the same literal with
\* its newlines escaped (its carriage returns are escaped too).
LiteralsEscaped(from, to) ==
    /\ Len(Bodies(to, 1)) = Len(Bodies(from, 1))
    /\ \A k \in 1..Len(Bodies(from, 1)) :
          /\ ~HasNewline(Bodies(to, 1)[k])
          /\ Bodies(to, 1)[k] = EscapedReturns(EscapedNewlines(Bodies(from, 1)[k]))

\* C8 (as claimed): when a string literal of the raw text holds a newline, the
\* sanitized text has that newline escaped and every character outside the
\* string literals is as in the input, in the same order.
C8_OutsideUnchanged ==
    (tpc = "out" /\ \E k \in 1..Len(Bodies(json_str, 1)) : HasNewline(Bodies(json_str, 1)[k]))
    => /\ LiteralsEscaped(json_str, sanitized)
       /\ Outside(sanitized, 1) = Outside(json_str, 1)

\* The text once the control characters the sanitizer drops are gone.
WithoutControl(s) == SelectSeq(s, LAMBDA c : c \notin {TAB, SOH, DEL})

\* C8 (amended): the control characters of the removed ranges are dropped
\* everywhere; in what remains, every newline inside a string literal is
\* escaped and every character outside the string literals is kept, in order.
C8_OutsideKeptButControl ==
    tpc = "out" =>
        /\ LiteralsEscaped(WithoutControl(json_str), sanitized)
        /\ Outside(sanitized, 1) = Outside(WithoutControl(json_str), 1)

\* C8 witness: a tab before a literal that holds a newline; the tab is gone and
\* the newline is escaped.
C8_Witness ==
    /\ tpc = "out"
    /\ json_str = <<TAB, Quote, NL, Quote>>
    /\ sanitized = <<Quote, Backslash, "n", Quote>>

\* b with every tab written as backslash, t.
RECURSIVE EscapedTabs(_)
EscapedTabs(b) ==
    IF b = <<>> THEN <<>>
    ELSE (IF Head(b) = TAB THEN <<Backslash, "t">> ELSE <<Head(b)>>)
             \o EscapedTabs(Tail(b))

\* C13 (as claimed): within each string literal, every raw newline, tab and
\* carriage return is replaced by its two-character escape, so none of the
\* three is lost: on a text with no other control character, the literals of
\* the output are the literals of the input with the three escaped.
C13_WhitespaceControlsEscaped ==
    (tpc = "out" /\ \A i \in 1..Len(json_str) : json_str[i] \notin {SOH, DEL})
    => /\ Len(Bodies(sanitized, 1)) = Len(Bodies(json_str, 1))
       /\ \A k \in 1..Len(Bodies(json_str, 1)) :
             Bodies(sanitized, 1)[k]
                 = EscapedTabs(EscapedReturns(EscapedNewlines(Bodies(json_str, 1)[k])))

====
